---- MODULE Spec2Model ----
(***************************************************************************)
(* Model of chia/wallet/trade_manager.py (TradeManager): the trade store,  *)
(* the offer builder, the offer matcher and the on-ledger coin handler.    *)
(*                                                                         *)
(* Collaborators whose code is not part of trade_manager.py (TradeStore,   *)
(* Offer, the wallets, the wallet state manager) are modelled from the     *)
(* written specification of their interfaces.                              *)
(***************************************************************************)
EXTENDS Integers, Sequences, FiniteSets, TLC

VARIABLES
    trade_store,   \* TradeStore rows, in insertion order
    tx_store,      \* transactions persisted by the wallet state manager
    coin_store,    \* wallet_state_manager.coin_store: our coin records
    result,        \* what the last public operation gave back to its caller
    handler,       \* an in-flight coins_of_interest_farmed (its locals)
    canceller,     \* an in-flight cancel_pending_offer_safely (its locals)
    responder      \* an in-flight respond_to_offer (its locals)

vars == <<trade_store, tx_store, coin_store, result, handler, canceller, responder>>

(***************************************************************************)
(* Bounds of the model.                                                    *)
(***************************************************************************)
MaxTrades == 2      \* rows the trade store may hold
MaxHeight == 1      \* block heights 1..MaxHeight at which a coin may be spent

Heights == 1..MaxHeight
NoHeight == 0 - 1   \* Python None for spent_height

(***************************************************************************)
(* Trade status (chia.wallet.trading.trade_status.TradeStatus).            *)
(***************************************************************************)
PendingStatuses == {"PENDING_ACCEPT", "PENDING_CONFIRM", "PENDING_CANCEL"}
TerminalStatuses == {"CONFIRMED", "CANCELLED", "FAILED"}

(***************************************************************************)
(* Puzzle hashes, coins and coin names.  A coin is (parent_coin_info,      *)
(* puzzle_hash, amount); name() is its hash, modelled as an injective      *)
(* integer code of the three fields.                                       *)
(***************************************************************************)
PuzzleHash(owner, asset, index) == [owner |-> owner, asset |-> asset, index |-> index]

OfferPh(asset) == PuzzleHash("settlement", asset, 0)

MakeCoin(parent, ph, amount) == [parent_coin_info |-> parent, puzzle_hash |-> ph, amount |-> amount]

AssetCode(asset) == IF asset = "None" THEN 0 ELSE IF asset = "K" THEN 100 ELSE 200

CoinName(c) ==
    IF c.parent_coin_info = 0
    THEN c.puzzle_hash.index
    ELSE 10 * c.parent_coin_info + c.amount + AssetCode(c.puzzle_hash.asset)
         + (IF c.puzzle_hash.owner = "settlement" THEN 0 ELSE 1000 + 1000 * c.puzzle_hash.index)

Names(coins) == {CoinName(c) : c \in coins}

SumAmounts(S) ==
    LET RECURSIVE Sum(_)
        Sum(T) == IF T = {} THEN 0
                  ELSE LET x == CHOOSE y \in T : TRUE IN x.amount + Sum(T \ {x})
    IN Sum(S)

Abs(n) == IF n < 0 THEN 0 - n ELSE n

(***************************************************************************)
(* The wallets of the wallet state manager.  Wallet 1 is the main          *)
(* (standard) wallet and holds two coins of amount 1; wallet 2 tracks      *)
(* colour K and holds no coin; wallet 3 is of a type offers do not         *)
(* support; no other wallet id exists.                                     *)
(***************************************************************************)
wallets == [w \in {1, 2, 3} |->
              IF w = 1 THEN [type |-> "STANDARD_WALLET", asset |-> "None"]
              ELSE IF w = 2 THEN [type |-> "COLOURED_COIN", asset |-> "K"]
              ELSE [type |-> "RATE_LIMITED", asset |-> "None"]]

main_wallet == 1

OurCoinA == MakeCoin(0, PuzzleHash("us", "None", 1), 1)
OurCoinB == MakeCoin(0, PuzzleHash("us", "None", 2), 1)
PeerCoin == MakeCoin(0, PuzzleHash("peer", "K", 3), 2)

OurCoins == {OurCoinA, OurCoinB}

(***************************************************************************)
(* Offer (chia.wallet.trading.offer.Offer).  An offer holds its requested  *)
(* (notarized) payments and a bundle: the coins the bundle spends and the  *)
(* settlement coins it creates.                                            *)
(***************************************************************************)
MakeOffer(payments, removals, offered) ==
    [requested_payments |-> payments, removals |-> removals, offered |-> offered]

get_primary_coins(offer) == offer.removals

get_offered_coins(offer) == offer.offered

get_involved_coins(offer) == get_primary_coins(offer) \cup get_offered_coins(offer)

OfferAssets(offer) ==
    {p.asset : p \in offer.requested_payments} \cup {c.puzzle_hash.asset : c \in offer.offered}

\* arbitrage(): asset key -> sum of offered amounts minus sum of requested amounts
arbitrage(offer) ==
    [a \in OfferAssets(offer) |->
        SumAmounts({c \in offer.offered : c.puzzle_hash.asset = a})
        - SumAmounts({p \in offer.requested_payments : p.asset = a})]

aggregate(o1, o2) ==
    MakeOffer(o1.requested_payments \cup o2.requested_payments,
              o1.removals \cup o2.removals,
              o1.offered \cup o2.offered)

is_valid(offer) == \A a \in OfferAssets(offer) : arbitrage(offer)[a] = 0

\* name(): the hash of the canonical serialization, equal exactly for equal content
OfferName(offer) == offer

\* Payment(puzzle_hash, amount, memos) notarized with the nonce of the offered coins
NotarizedPayment(asset, nonce, ph, amount, memos) ==
    [asset |-> asset, nonce |-> nonce, puzzle_hash |-> ph, amount |-> amount, memos |-> memos]

notarize_payments(requested, all_coins) ==
    {NotarizedPayment(p.asset, Names(all_coins), p.puzzle_hash, p.amount, p.memos) : p \in requested}

\* one announcement per notarized payment
calculate_announcements(notarized) == {[payment |-> p] : p \in notarized}

(***************************************************************************)
(* TradeStore (chia.wallet.trading.trade_store.TradeStore): rows keyed by  *)
(* trade_id.                                                               *)
(***************************************************************************)
TradeRecord(offer, status, is_my_offer) ==
    [trade_id |-> OfferName(offer),
     status |-> status,
     confirmed_at_index |-> 0,
     is_my_offer |-> is_my_offer,
     offer |-> offer,
     coins_of_interest |-> get_involved_coins(offer)]

RowOf(store, trade_id) ==
    {i \in 1..Len(store) : store[i].trade_id = trade_id}

\* add_trade_record: insert or replace on trade_id
add_trade_record(store, record) ==
    IF RowOf(store, record.trade_id) = {}
    THEN Append(store, record)
    ELSE [i \in 1..Len(store) |->
            IF store[i].trade_id = record.trade_id THEN record ELSE store[i]]

\* get_trade_record: the row of trade_id, or none
get_trade_record(store, trade_id) ==
    {store[i] : i \in RowOf(store, trade_id)}

\* set_status(trade_id, status, in_transaction, index): no row, no change; the
\* confirmation height is replaced only when one is given
set_status(store, trade_id, status, index) ==
    [i \in 1..Len(store) |->
        IF store[i].trade_id = trade_id
        THEN [store[i] EXCEPT !.status = status,
                              !.confirmed_at_index =
                                  IF index # 0 THEN index ELSE store[i].confirmed_at_index]
        ELSE store[i]]

get_trade_record_with_status(store, status) ==
    SelectSeq(store, LAMBDA t : t.status = status)

(***************************************************************************)
(* Queries of the TradeManager.                                            *)
(***************************************************************************)
get_offers_with_status(store, status) == get_trade_record_with_status(store, status)

get_all_trades(store) == store

get_trade_by_id(store, trade_id) == get_trade_record(store, trade_id)

AllPending(store) ==
    get_offers_with_status(store, "PENDING_ACCEPT")
    \o get_offers_with_status(store, "PENDING_CONFIRM")
    \o get_offers_with_status(store, "PENDING_CANCEL")

\* the watched coins, by name
get_coins_of_interest(store) ==
    LET all_pending == AllPending(store)
    IN UNION {Names(all_pending[i].coins_of_interest) : i \in 1..Len(all_pending)}

\* index of the first row that is not CANCELLED and holds the coin; 0 for None
get_trade_by_coin(store, coin) ==
    LET all_trades == get_all_trades(store)
        hits == {i \in 1..Len(all_trades) :
                    /\ all_trades[i].status # "CANCELLED"
                    /\ coin \in all_trades[i].coins_of_interest}
    IN IF hits = {} THEN 0 ELSE CHOOSE i \in hits : \A j \in hits : i <= j

\* coin_store.get_multiple_coin_records(names): the records we hold among the names
get_multiple_coin_records(cs, names) == {cs[n] : n \in names \cap DOMAIN cs}

\* get_locked_coins that leaves the PENDING_CANCEL trades out
get_locked_coins_without_pending_cancel(store, cs, wallet_id) ==
    LET all_pending == get_offers_with_status(store, "PENDING_ACCEPT")
                       \o get_offers_with_status(store, "PENDING_CONFIRM")
        coins_of_interest ==
            UNION {Names(get_involved_coins(all_pending[i].offer)) : i \in 1..Len(all_pending)}
        coin_records == get_multiple_coin_records(cs, coins_of_interest)
    IN {CoinName(r.coin) : r \in {x \in coin_records : wallet_id = 0 \/ x.wallet_id = wallet_id}}

\* get_locked_coins(wallet_id): names of our coins involved in a pending trade;
\* wallet_id 0 stands for None
get_locked_coins(store, cs, wallet_id) ==
    LET all_pending == AllPending(store)
        coins_of_interest ==
            UNION {Names(get_involved_coins(all_pending[i].offer)) : i \in 1..Len(all_pending)}
        coin_records == get_multiple_coin_records(cs, coins_of_interest)
    IN {CoinName(r.coin) : r \in {x \in coin_records : wallet_id = 0 \/ x.wallet_id = wallet_id}}

(***************************************************************************)
(* Wallet and wallet state manager operations the TradeManager calls.      *)
(***************************************************************************)
InitialCoinStore ==
    [n \in Names(OurCoins) |->
        [coin |-> CHOOSE c \in OurCoins : CoinName(c) = n, wallet_id |-> 1, spent |-> FALSE]]

get_confirmed_balance(cs, wallet_id) ==
    SumAmounts({r.coin : r \in {x \in {cs[n] : n \in DOMAIN cs} :
                                    x.wallet_id = wallet_id /\ ~x.spent}})

\* select_coins(amount): every selection the wallet may return: unspent coins of the
\* wallet that no pending trade locks, covering the amount, none of them superfluous;
\* the empty set of selections when the wallet raises
select_coins(store, cs, wallet_id, amount) ==
    LET locked == get_locked_coins(store, cs, wallet_id)
        spendable == {r.coin : r \in {x \in {cs[n] : n \in DOMAIN cs} :
                                          /\ x.wallet_id = wallet_id
                                          /\ ~x.spent
                                          /\ CoinName(x.coin) \notin locked}}
    IN {S \in SUBSET spendable :
            /\ SumAmounts(S) >= amount
            /\ \A c \in S : SumAmounts(S \ {c}) < amount}

get_new_puzzlehash(wallet_id, fresh) == PuzzleHash("us", wallets[wallet_id].asset, fresh)

\* generate_signed_transaction(amount, Offer.ph(), 0, coins): spends the coins and
\* pays the amount to the settlement puzzle from the first of them
generate_signed_transaction(wallet_id, amount, coins) ==
    LET origin == CHOOSE c \in coins : \A d \in coins : CoinName(c) <= CoinName(d)
    IN [removals |-> coins,
        additions |-> {MakeCoin(CoinName(origin), OfferPh(wallets[wallet_id].asset), amount)}]

\* get_wallet_for_colour: the id of the wallet tracking the colour, 0 for None
get_wallet_for_colour(asset) ==
    LET found == {w \in DOMAIN wallets :
                     wallets[w].type = "COLOURED_COIN" /\ wallets[w].asset = asset}
    IN IF found = {} THEN 0 ELSE CHOOSE w \in found : TRUE

\* get_wallet_id_for_puzzle_hash: the id of our wallet owning the puzzle hash, 0 for None
get_wallet_id_for_puzzle_hash(ph) ==
    IF ph.owner # "us" THEN 0
    ELSE IF ph.asset = "None" THEN main_wallet
    ELSE get_wallet_for_colour(ph.asset)

\* get_wallet_for_coin: the id of the wallet holding the coin, 0 for None
get_wallet_for_coin(cs, name) == IF name \in DOMAIN cs THEN cs[name].wallet_id ELSE 0

(***************************************************************************)
(* _create_offer_for_ids(offer_dict).  offer_dict is the sequence of the   *)
(* dictionary's (wallet id, amount) items in iteration order.  The value   *)
(* is the set of outcomes the call may have, one per coin selection.       *)
(***************************************************************************)
NoOffer == MakeOffer({}, {}, {})

Raised(error) == [kind |-> "raised", success |-> FALSE, offer |-> NoOffer, error |-> error]

Returned(success, offer, error) ==
    [kind |-> "returned", success |-> success, offer |-> offer, error |-> error]

\* "except Exception as e: raise e": the statements after the raise never run
ExceptClause(error) == Raised(error)

\* the exception the first loop raises at one item, "" when it raises none
ItemError(store, cs, item) ==
    LET id == item[1]
        amount == item[2]
    IN IF id \notin DOMAIN wallets THEN "KeyError"
       ELSE IF amount > 0
       THEN IF wallets[id].type \in {"STANDARD_WALLET", "COLOURED_COIN"} THEN ""
            ELSE "Offers are not implemented for this wallet type"
       ELSE IF amount < 0
       THEN IF get_confirmed_balance(cs, id) < Abs(amount) THEN "insufficient funds in wallet"
            ELSE IF select_coins(store, cs, id, Abs(amount)) = {} THEN "select_coins failed"
            ELSE ""
       ELSE ""

\* the offer with the requested payments left out of the notarization
BuiltOffer_without_requested(offer_dict, selection, fresh) ==
    LET negative == {i \in 1..Len(offer_dict) : offer_dict[i][2] < 0}
        all_transactions ==
            {generate_signed_transaction(offer_dict[i][1], Abs(offer_dict[i][2]), selection[i]) :
                i \in negative}
    IN MakeOffer(notarize_payments({}, UNION {selection[i] : i \in negative}),
                 UNION {tx.removals : tx \in all_transactions},
                 UNION {tx.additions : tx \in all_transactions})

\* the offer built from the items once every wallet has selected its coins
BuiltOffer(offer_dict, selection, fresh) ==
    LET positive == {i \in 1..Len(offer_dict) : offer_dict[i][2] > 0}
        negative == {i \in 1..Len(offer_dict) : offer_dict[i][2] < 0}
        requested_payments ==
            {[asset |-> wallets[offer_dict[i][1]].asset,
              puzzle_hash |-> get_new_puzzlehash(offer_dict[i][1], fresh),
              amount |-> offer_dict[i][2],
              \* "None if WalletType.STANDARD_WALLET else [p2_ph]": the enum member
              \* STANDARD_WALLET is 0, which is false, so the memos are always [p2_ph]
              memos |-> <<get_new_puzzlehash(offer_dict[i][1], fresh)>>] : i \in positive}
        all_coins == UNION {selection[i] : i \in negative}
        notarized_payments == notarize_payments(requested_payments, all_coins)
        all_transactions ==
            {generate_signed_transaction(offer_dict[i][1], Abs(offer_dict[i][2]), selection[i]) :
                i \in negative}
    IN MakeOffer(notarized_payments,
                 UNION {tx.removals : tx \in all_transactions},
                 UNION {tx.additions : tx \in all_transactions})

_create_offer_for_ids(store, cs, offer_dict, fresh) ==
    LET failing == {i \in 1..Len(offer_dict) : ItemError(store, cs, offer_dict[i]) # ""}
        positive == {i \in 1..Len(offer_dict) : offer_dict[i][2] > 0}
        negative == {i \in 1..Len(offer_dict) : offer_dict[i][2] < 0}
    IN IF failing # {}
       THEN {ExceptClause(ItemError(store, cs, offer_dict[CHOOSE i \in failing : \A j \in failing : i <= j]))}
       ELSE IF positive = {}
       \* announcements_to_assert[0] of an empty list
       THEN {ExceptClause("IndexError")}
       ELSE {Returned(TRUE, BuiltOffer(offer_dict, selection, fresh), "") :
                selection \in {f \in [negative -> SUBSET OurCoins] :
                    \A i \in negative :
                        f[i] \in select_coins(store, cs, offer_dict[i][1], Abs(offer_dict[i][2]))}}

(***************************************************************************)
(* respond_to_offer(offer), up to the TradeRecord it is about to save.     *)
(***************************************************************************)
AssetOrder == <<"None", "K", "J">>

\* arbitrage.items(), in the order of the asset keys
ArbitrageItems(offer) ==
    LET arb == arbitrage(offer)
        present == SelectSeq(AssetOrder, LAMBDA a : a \in DOMAIN arb)
    IN [i \in 1..Len(present) |-> <<present[i], arb[present[i]]>>]

WalletForAsset(asset) == IF asset = "None" THEN main_wallet ELSE get_wallet_for_colour(asset)

\* the assets of the offer we hold no wallet for
MissingAssets(offer) ==
    {i \in 1..Len(ArbitrageItems(offer)) : WalletForAsset(ArbitrageItems(offer)[i][1]) = 0}

\* take_offer_dict with every amount negated
take_offer_dict_negated(offer) ==
    LET items == ArbitrageItems(offer)
    IN [i \in 1..Len(items) |-> <<WalletForAsset(items[i][1]), 0 - items[i][2]>>]

take_offer_dict(offer) ==
    LET items == ArbitrageItems(offer)
    IN [i \in 1..Len(items) |-> <<WalletForAsset(items[i][1]), items[i][2]>>]

TransactionRecord(type, wallet_id, amount, trade_id, name) ==
    [type |-> type, wallet_id |-> wallet_id, amount |-> amount, trade_id |-> trade_id, name |-> name]

\* the elements of a set of transaction records as a list, by name
RECURSIVE ListOf(_)
ListOf(S) ==
    IF S = {} THEN <<>>
    ELSE LET x == CHOOSE y \in S : \A z \in S : y.name.id <= z.name.id
         IN <<x>> \o ListOf(S \ {x})

\* not_ephemeral_additions() of the valid spend: the coins that pay the requested
\* payments out of the settlement coins
Additions(complete_offer) ==
    {MakeCoin(CoinName(CHOOSE c \in complete_offer.offered :
                           /\ c.puzzle_hash.asset = p.asset
                           /\ \A d \in complete_offer.offered :
                                  d.puzzle_hash.asset = p.asset => CoinName(c) <= CoinName(d)),
              p.puzzle_hash, p.amount) :
        p \in {q \in complete_offer.requested_payments :
                  \E c \in complete_offer.offered : c.puzzle_hash.asset = q.asset}}

\* removals() of the valid spend: the inputs and the settlement coins
Removals(complete_offer) == complete_offer.removals \cup complete_offer.offered

\* the INCOMING_TRADE rows, then one OUTGOING_TRADE row per wallet
HistoryRows(complete_offer) ==
    LET settlement_coins == get_offered_coins(complete_offer)
        settlement_coin_ids == Names(settlement_coins)
        settlement_parents == {c.parent_coin_info : c \in settlement_coins}
        incoming ==
            {TransactionRecord("INCOMING_TRADE", get_wallet_id_for_puzzle_hash(a.puzzle_hash),
                               a.amount, OfferName(complete_offer),
                               [of |-> "addition", id |-> CoinName(a)]) :
                a \in {x \in Additions(complete_offer) :
                          /\ x.parent_coin_info \in settlement_coin_ids
                          /\ get_wallet_id_for_puzzle_hash(x.puzzle_hash) # 0}}
        ours == {r \in Removals(complete_offer) :
                    /\ CoinName(r) \in settlement_parents
                    /\ get_wallet_id_for_puzzle_hash(r.puzzle_hash) # 0}
        removal_dict ==
            [wid \in {get_wallet_id_for_puzzle_hash(r.puzzle_hash) : r \in ours} |->
                {r \in ours : get_wallet_id_for_puzzle_hash(r.puzzle_hash) = wid}]
        outgoing ==
            {TransactionRecord("OUTGOING_TRADE", wid, SumAmounts(removal_dict[wid]),
                               OfferName(complete_offer),
                               [of |-> "removals", id |-> wid]) : wid \in DOMAIN removal_dict}
    IN ListOf(incoming) \o ListOf(outgoing)

\* the dummy transaction that carries the bundle to the wallet push
PushTx(complete_offer) ==
    TransactionRecord("OUTGOING_TRADE", 0, 0, OfferName(complete_offer),
                      [of |-> "bundle", id |-> 0])

\* everything respond_to_offer computes before its first write: the outcomes are
\* an early return, an exception, or the records to persist
RespondOutcomes(store, cs, offer, fresh) ==
    IF MissingAssets(offer) # {}
    THEN {[kind |-> "returned", success |-> FALSE, error |-> "Do not have a CAT of asset ID",
           trade_record |-> TradeRecord(NoOffer, "FAILED", FALSE), txs |-> <<>>]}
    ELSE {IF built.kind = "raised"
          THEN [kind |-> "raised", success |-> FALSE, error |-> built.error,
                trade_record |-> TradeRecord(NoOffer, "FAILED", FALSE), txs |-> <<>>]
          ELSE IF ~built.success
          THEN [kind |-> "returned", success |-> FALSE, error |-> built.error,
                trade_record |-> TradeRecord(NoOffer, "FAILED", FALSE), txs |-> <<>>]
          ELSE IF ~is_valid(aggregate(offer, built.offer))
          THEN [kind |-> "raised", success |-> FALSE, error |-> "AssertionError",
                trade_record |-> TradeRecord(NoOffer, "FAILED", FALSE), txs |-> <<>>]
          ELSE [kind |-> "built", success |-> TRUE, error |-> "",
                trade_record |-> TradeRecord(aggregate(offer, built.offer), "PENDING_CONFIRM", FALSE),
                txs |-> HistoryRows(aggregate(offer, built.offer))] :
            built \in _create_offer_for_ids(store, cs, take_offer_dict(offer), fresh)}

(***************************************************************************)
(* The ledger as get_coin_state shows it.  A view is a set of CoinState    *)
(* (coin name, spent_height), spent_height NoHeight for an unspent coin.   *)
(* A settlement coin of ours can be on the ledger only once the coin it    *)
(* descends from is spent.                                                 *)
(***************************************************************************)
CoinState(coin, spent_height) == [coin |-> coin, spent_height |-> spent_height]

LedgerViews(cs, coins) ==
    LET created == {c \in coins :
                       c.parent_coin_info \in DOMAIN cs => cs[c.parent_coin_info].spent}
    IN UNION {{{CoinState(c, f[c]) : c \in X} : f \in [X -> {NoHeight} \cup Heights]} :
                 X \in SUBSET created}

\* get_coin_state(names): the coin states the ledger has for the names, as a list
RECURSIVE StateList(_)
StateList(S) ==
    IF S = {} THEN <<>>
    ELSE LET x == CHOOSE y \in S : \A z \in S : CoinName(y.coin) <= CoinName(z.coin)
         IN <<x>> \o StateList(S \ {x})

get_coin_state(view, names) == StateList({s \in view : CoinName(s.coin) \in names})

(***************************************************************************)
(* coins_of_interest_farmed(coin_state): lines 97-126, for the trade that  *)
(* get_trade_by_coin returned.                                             *)
(***************************************************************************)
\* the settlement coins of the offer whose parent is a coin of ours
OurSettlementPayments(cs, trade) ==
    LET offer == trade.offer
        primary_coin_ids == Names(get_primary_coins(offer))
        our_coin_records == get_multiple_coin_records(cs, primary_coin_ids)
        our_primary_coins == {CoinName(r.coin) : r \in our_coin_records}
        all_settlement_payments == get_offered_coins(offer)
    IN {c \in all_settlement_payments : c.parent_coin_info \in our_primary_coins}

\* the decision that also gives up a PENDING_ACCEPT trade whose coins went elsewhere
HandlerDecision_cancelling_pending_accept(cs, trade, view) ==
    LET our_settlement_ids == Names(OurSettlementPayments(cs, trade))
        coin_states == get_coin_state(view, our_settlement_ids)
        coin_state_names == {CoinName(coin_states[i].coin) : i \in 1..Len(coin_states)}
    IN IF our_settlement_ids \cap coin_state_names # {}
       THEN [write |-> TRUE, status |-> "CONFIRMED", index |-> coin_states[1].spent_height]
       ELSE IF trade.status \in {"PENDING_CANCEL", "PENDING_ACCEPT"}
       THEN [write |-> TRUE, status |-> "CANCELLED", index |-> 0]
       ELSE IF trade.status = "PENDING_CONFIRM"
       THEN [write |-> TRUE, status |-> "FAILED", index |-> 0]
       ELSE [write |-> FALSE, status |-> trade.status, index |-> 0]

\* the set_status call of the handler: [write, status, index]
HandlerDecision(cs, trade, view) ==
    LET our_settlement_ids == Names(OurSettlementPayments(cs, trade))
        coin_states == get_coin_state(view, our_settlement_ids)
        coin_state_names == {CoinName(coin_states[i].coin) : i \in 1..Len(coin_states)}
    IN IF our_settlement_ids \cap coin_state_names # {}
       THEN [write |-> TRUE, status |-> "CONFIRMED", index |-> coin_states[1].spent_height]
       ELSE IF trade.status = "PENDING_CANCEL"
       THEN [write |-> TRUE, status |-> "CANCELLED", index |-> 0]
       ELSE IF trade.status = "PENDING_CONFIRM"
       THEN [write |-> TRUE, status |-> "FAILED", index |-> 0]
       ELSE [write |-> FALSE, status |-> trade.status, index |-> 0]

\* the store after the handler has run for the trade it read
HandlerFinish(store, cs, trade, view) ==
    LET d == HandlerDecision(cs, trade, view)
    IN IF d.write THEN set_status(store, trade.trade_id, d.status, d.index) ELSE store

\* the whole handler, run without interruption
coins_of_interest_farmed(store, cs, coin_state, view) ==
    LET i == get_trade_by_coin(store, coin_state.coin)
    IN IF i = 0 THEN store ELSE HandlerFinish(store, cs, store[i], view)

(***************************************************************************)
(* Cancellation.                                                           *)
(***************************************************************************)
cancel_pending_offer(store, trade_id) == set_status(store, trade_id, "CANCELLED", 0)

\* the self-spends cancel_pending_offer_safely queues: one per primary coin of ours
SelfSpends(cs, trade) ==
    {TransactionRecord("OUTGOING_TX", get_wallet_for_coin(cs, CoinName(c)), c.amount,
                       OfferName(NoOffer), [of |-> "spend", id |-> CoinName(c)]) :
        c \in {x \in get_primary_coins(trade.offer) : get_wallet_for_coin(cs, CoinName(x)) # 0}}

add_pending_transaction(txs, tx) == txs \cup {tx}

add_transaction(txs, tx) == txs \cup {tx}

\* lines 168-185, for the trade that get_trade_record returned
CancelSafelyFinish(store, trade_id) == set_status(store, trade_id, "PENDING_CANCEL", 0)

save_trade(store, trade) == add_trade_record(store, trade)

(***************************************************************************)
(* Inputs of the operations.                                               *)
(***************************************************************************)
\* offer dictionaries handed to create_offer_for_ids
MakerDicts ==
    {<< <<1, 0 - 1>>, <<2, 1>> >>,     \* part with 1 of the base asset, receive 1 of K
     << <<2, 0 - 1>>, <<1, 1>> >>,     \* wallet 2 holds nothing
     << <<1, 0 - 3>>, <<2, 1>> >>,     \* more than wallet 1 holds
     << <<4, 1>> >>,                   \* no such wallet
     << <<3, 1>> >>,                   \* a wallet type offers do not support
     << <<1, 0 - 1>> >>}               \* nothing requested

\* a peer's partial offer: it offers `offered` of K out of its coin and requests
\* `requested` of `asset`
PeerOffer(offered, asset, requested) ==
    MakeOffer({NotarizedPayment(asset, Names({PeerCoin}), PuzzleHash("peer", asset, 0),
                                requested, <<PuzzleHash("peer", asset, 0)>>)},
              {PeerCoin},
              {MakeCoin(CoinName(PeerCoin), OfferPh("K"), offered)})

PeerOffers ==
    {PeerOffer(1, "None", 1), PeerOffer(2, "None", 1),   \* two offers spending one coin
     PeerOffer(1, "J", 1),                                \* asks for a colour we do not hold
     PeerOffer(1, "None", 3)}                             \* asks for more than we have

StoredCoins(store) == UNION {store[i].coins_of_interest : i \in 1..Len(store)}

\* coins a CoinState may be about
NotifiedCoins(store) == StoredCoins(store) \cup OurCoins \cup {PeerCoin}

\* trade ids a caller may pass: those stored and one that is not
TradeIds(store) == {store[i].trade_id : i \in 1..Len(store)} \cup {OfferName(NoOffer)}

\* what a public operation gave back: a returned (success, record, error) or an
\* exception; the record is in the trade store
Result(op, kind, success, error) ==
    [op |-> op, kind |-> kind, success |-> success, error |-> error]

\* cancellations and the handler give nothing back
Nothing == Result("none", "returned", TRUE, "")

Idle == [pc |-> "idle"]

\* the puzzle hash index the wallets hand out next: one no stored offer uses
Fresh(store) == Len(store) + 1

(***************************************************************************)
(* Initial state: an empty trade store, no transaction, our coins unspent. *)
(***************************************************************************)
Init ==
    /\ trade_store = <<>>
    /\ tx_store = {}
    /\ coin_store = InitialCoinStore
    /\ result = Nothing
    /\ handler = Idle
    /\ canceller = Idle
    /\ responder = Idle

(***************************************************************************)
(* The public operations, each run without interruption.                   *)
(***************************************************************************)
\* create_offer_for_ids with the record saved before the outcome is looked at
create_offer_for_ids_saving_first(store, built) ==
    [store |-> save_trade(store, TradeRecord(built.offer, "PENDING_ACCEPT", TRUE)),
     result |-> IF built.kind = "raised" \/ ~built.success
                THEN Result("create_offer_for_ids", "raised", FALSE, built.error)
                ELSE Result("create_offer_for_ids", "returned", TRUE, "")]

\* create_offer_for_ids, lines 191-212, given what _create_offer_for_ids gave:
\* the trade store and the result afterwards
create_offer_for_ids(store, built) ==
    IF built.kind = "raised"
    THEN [store |-> store, result |-> Result("create_offer_for_ids", "raised", FALSE, built.error)]
    ELSE IF ~built.success
    THEN [store |-> store,
          result |-> Result("create_offer_for_ids", "raised", FALSE, "Error creating offer")]
    ELSE [store |-> save_trade(store, TradeRecord(built.offer, "PENDING_ACCEPT", TRUE)),
          result |-> Result("create_offer_for_ids", "returned", TRUE, "")]

CreateOffer(dicts) ==
    \E offer_dict \in dicts :
      \E built \in _create_offer_for_ids(trade_store, coin_store, offer_dict, Fresh(trade_store)) :
        LET after == create_offer_for_ids(trade_store, built)
        IN /\ Len(after.store) <= MaxTrades
           /\ trade_store' = after.store
           /\ result' = after.result
           /\ UNCHANGED <<tx_store, coin_store, handler, canceller, responder>>

CreateOfferForIds == CreateOffer(MakerDicts)

\* the same, for the dictionaries an offer can be built from
CreateMakerOffer == CreateOffer({d \in MakerDicts : d[1] = <<1, 0 - 1>> /\ Len(d) = 2})

\* respond_to_offer, lines 391-416, given what lines 288-389 computed: the
\* trade store, the transaction store and the result afterwards
respond_to_offer(store, txs, out) ==
    IF out.kind = "built"
    THEN [store |-> save_trade(store, out.trade_record),
          txs |-> LET pushed == add_pending_transaction(txs, PushTx(out.trade_record.offer))
                  IN pushed \cup {out.txs[i] : i \in 1..Len(out.txs)},
          result |-> Result("respond_to_offer", "returned", TRUE, "")]
    ELSE [store |-> store, txs |-> txs,
          result |-> Result("respond_to_offer", out.kind, FALSE, out.error)]

Respond(offers) ==
    \E offer \in offers :
      \E out \in RespondOutcomes(trade_store, coin_store, offer, Fresh(trade_store)) :
        LET after == respond_to_offer(trade_store, tx_store, out)
        IN /\ Len(after.store) <= MaxTrades
           /\ trade_store' = after.store
           /\ tx_store' = after.txs
           /\ result' = after.result
           /\ UNCHANGED <<coin_store, handler, canceller, responder>>

RespondToOffer == Respond(PeerOffers)

\* the same, for a peer offer we can fund
RespondToPeerOffer == Respond({PeerOffer(1, "None", 1)})

\* cancel_pending_offer(trade_id), lines 158-159
CancelPendingOffer ==
    \E trade_id \in TradeIds(trade_store) :
        /\ trade_store' = cancel_pending_offer(trade_store, trade_id)
        /\ result' = Nothing
        /\ UNCHANGED <<tx_store, coin_store, handler, canceller, responder>>

\* cancel_pending_offer_safely(trade_id), lines 161-185
CancelPendingOfferSafely ==
    \E trade_id \in TradeIds(trade_store) :
        /\ IF get_trade_record(trade_store, trade_id) = {}
           THEN UNCHANGED <<trade_store, tx_store>>
           ELSE LET trade == CHOOSE t \in get_trade_record(trade_store, trade_id) : TRUE
                IN /\ tx_store' = tx_store \cup SelfSpends(coin_store, trade)
                   /\ trade_store' = CancelSafelyFinish(trade_store, trade_id)
        /\ result' = Nothing
        /\ UNCHANGED <<coin_store, handler, canceller, responder>>

\* coins_of_interest_farmed(coin_state), lines 83-126
CoinsOfInterestFarmed ==
    \E coin \in NotifiedCoins(trade_store), spent_height \in {NoHeight} \cup Heights :
      LET i == get_trade_by_coin(trade_store, coin)
      IN \E view \in (IF i = 0 THEN {{}}
                      ELSE LedgerViews(coin_store, OurSettlementPayments(coin_store, trade_store[i]))) :
            /\ trade_store' = coins_of_interest_farmed(trade_store, coin_store,
                                                       CoinState(coin, spent_height), view)
            /\ result' = Nothing
            /\ UNCHANGED <<tx_store, coin_store, handler, canceller, responder>>

\* the ledger spends one of our coins and the coin store records it
CoinSpent ==
    \E n \in DOMAIN coin_store :
        /\ ~coin_store[n].spent
        /\ coin_store' = [coin_store EXCEPT ![n].spent = TRUE]
        /\ UNCHANGED <<trade_store, tx_store, result, handler, canceller, responder>>

Next ==
    \/ CreateOfferForIds
    \/ RespondToOffer
    \/ CancelPendingOffer
    \/ CancelPendingOfferSafely
    \/ CoinsOfInterestFarmed
    \/ CoinSpent

Spec == Init /\ [][Next]_vars

(***************************************************************************)
(* The handler and the safe cancellation as tasks of the cooperative       *)
(* scheduler: each gives up control at its awaits, between reading the     *)
(* trade and writing its status.                                           *)
(***************************************************************************)
\* line 90: the handler reads the trade of the coin
HandlerStart ==
    /\ handler.pc = "idle"
    /\ \E coin \in NotifiedCoins(trade_store), spent_height \in {NoHeight} \cup Heights :
         LET i == get_trade_by_coin(trade_store, coin)
         IN IF i = 0
            THEN UNCHANGED handler
            ELSE handler' = [pc |-> "awaiting", trade |-> trade_store[i],
                             coin_state |-> CoinState(coin, spent_height)]
    /\ result' = Nothing
    /\ UNCHANGED <<trade_store, tx_store, coin_store, canceller, responder>>

\* lines 100-126: the awaits are over, the handler writes the status
HandlerWrite ==
    /\ handler.pc = "awaiting"
    /\ \E view \in LedgerViews(coin_store, OurSettlementPayments(coin_store, handler.trade)) :
         trade_store' = HandlerFinish(trade_store, coin_store, handler.trade, view)
    /\ handler' = Idle
    /\ UNCHANGED <<tx_store, coin_store, result, canceller, responder>>

\* line 164: the safe cancellation reads the trade
CancelSafelyStart ==
    /\ canceller.pc = "idle"
    /\ \E trade_id \in TradeIds(trade_store) :
         IF get_trade_record(trade_store, trade_id) = {}
         THEN UNCHANGED canceller
         ELSE canceller' = [pc |-> "awaiting",
                            trade |-> CHOOSE t \in get_trade_record(trade_store, trade_id) : TRUE]
    /\ result' = Nothing
    /\ UNCHANGED <<trade_store, tx_store, coin_store, handler, responder>>

\* lines 168-185: the self-spends are queued and the status is written
CancelSafelyWrite ==
    /\ canceller.pc = "awaiting"
    /\ tx_store' = tx_store \cup SelfSpends(coin_store, canceller.trade)
    /\ trade_store' = CancelSafelyFinish(trade_store, canceller.trade.trade_id)
    /\ canceller' = Idle
    /\ UNCHANGED <<coin_store, result, handler, responder>>

TaskNext ==
    \/ CreateMakerOffer
    \/ CancelPendingOffer
    \/ CoinSpent
    \/ HandlerStart
    \/ HandlerWrite
    \/ CancelSafelyStart
    \/ CancelSafelyWrite

TaskSpec == Init /\ [][TaskNext]_vars

(***************************************************************************)
(* respond_to_offer as a task: its writes are separate awaits, and the     *)
(* task may be cancelled at any of them.                                   *)
(***************************************************************************)
\* lines 288-389: nothing is written yet
RespondStart ==
    /\ responder.pc = "idle"
    /\ \E offer \in PeerOffers :
         \E out \in RespondOutcomes(trade_store, coin_store, offer, Fresh(trade_store)) :
           IF out.kind = "built"
           THEN /\ Len(trade_store) < MaxTrades
                /\ responder' = [pc |-> "save", trade_record |-> out.trade_record,
                                 txs |-> out.txs, next |-> 1]
                /\ UNCHANGED result
           ELSE /\ result' = Result("respond_to_offer", out.kind, FALSE, out.error)
                /\ UNCHANGED responder
    /\ UNCHANGED <<trade_store, tx_store, coin_store, handler, canceller>>

\* line 391: await self.save_trade(trade_record)
RespondSave ==
    /\ responder.pc = "save"
    /\ trade_store' = save_trade(trade_store, responder.trade_record)
    /\ responder' = [responder EXCEPT !.pc = "push"]
    /\ UNCHANGED <<tx_store, coin_store, result, handler, canceller>>

\* line 412: await self.wallet_state_manager.add_pending_transaction(push_tx)
RespondPush ==
    /\ responder.pc = "push"
    /\ tx_store' = add_pending_transaction(tx_store, PushTx(responder.trade_record.offer))
    /\ responder' = [responder EXCEPT !.pc = "history"]
    /\ UNCHANGED <<trade_store, coin_store, result, handler, canceller>>

\* lines 413-414: await self.wallet_state_manager.add_transaction(tx), one row a time
RespondAddTransaction ==
    /\ responder.pc = "history"
    /\ responder.next <= Len(responder.txs)
    /\ tx_store' = add_transaction(tx_store, responder.txs[responder.next])
    /\ responder' = [responder EXCEPT !.next = @ + 1]
    /\ UNCHANGED <<trade_store, coin_store, result, handler, canceller>>

\* line 416: return True, trade_record, None
RespondReturn ==
    /\ responder.pc = "history"
    /\ responder.next > Len(responder.txs)
    /\ result' = Result("respond_to_offer", "returned", TRUE, "")
    /\ responder' = Idle
    /\ UNCHANGED <<trade_store, tx_store, coin_store, handler, canceller>>

\* the task is cancelled while it waits at one of its awaits
RespondCancelled ==
    /\ responder.pc \in {"save", "push", "history"}
    /\ result' = Result("respond_to_offer", "raised", FALSE, "CancelledError")
    /\ responder' = Idle
    /\ UNCHANGED <<trade_store, tx_store, coin_store, handler, canceller>>

RespondNext ==
    \/ CreateMakerOffer
    \/ CancelPendingOffer
    \/ RespondStart
    \/ RespondSave
    \/ RespondPush
    \/ RespondAddTransaction
    \/ RespondReturn
    \/ RespondCancelled

RespondSpec == Init /\ [][RespondNext]_vars

(***************************************************************************)
(* Building and responding alone, with the unsafe cancellation that frees  *)
(* the coins of an offer and the ledger spending our coins.                *)
(***************************************************************************)
BuildNext ==
    \/ CreateOfferForIds
    \/ RespondToOffer
    \/ CancelPendingOffer
    \/ CoinSpent

BuildSpec == Init /\ [][BuildNext]_vars

(***************************************************************************)
(* Building with dictionaries that only ask to receive: the offer requests *)
(* a payment and spends no coin.                                           *)
(***************************************************************************)
ReceivingDicts ==
    {<< <<1, 1>> >>,     \* receive 1 of the base asset
     << <<2, 1>> >>}     \* receive 1 of K

CreateReceivingOffer == CreateOffer(ReceivingDicts)

RequestNext ==
    \/ CreateOfferForIds
    \/ CreateReceivingOffer
    \/ RespondToOffer
    \/ CancelPendingOffer

RequestSpec == Init /\ [][RequestNext]_vars

(***************************************************************************)
(* The life of the trades in the store while the ledger spends none of our *)
(* coins: offers are built, answered, cancelled either way, and the        *)
(* handler is notified of coins.                                           *)
(***************************************************************************)
LockNext ==
    \/ CreateMakerOffer
    \/ RespondToPeerOffer
    \/ CancelPendingOffer
    \/ CancelPendingOfferSafely
    \/ CoinsOfInterestFarmed

LockSpec == Init /\ [][LockNext]_vars

(***************************************************************************)
(* The life of the maker's trades: offers are built and cancelled either   *)
(* way, the ledger spends our coins and the handler is notified.           *)
(***************************************************************************)
LifeNext ==
    \/ CreateMakerOffer
    \/ CancelPendingOffer
    \/ CancelPendingOfferSafely
    \/ CoinsOfInterestFarmed
    \/ CoinSpent

LifeSpec == Init /\ [][LifeNext]_vars

(***************************************************************************)
(* The safe cancellation and the notifications of the ledger.  The safe    *)
(* cancellation queues its self-spends, then writes PENDING_CANCEL, with   *)
(* awaits in between.  The ledger confirms a queued spend of a coin, and   *)
(* the spend of a coin is notified to the handler once; the handler keeps  *)
(* the names of the coins it has been notified of.                         *)
(***************************************************************************)
\* the coins whose spend has been delivered to the handler
Delivered(h) == IF "delivered" \in DOMAIN h THEN h.delivered ELSE {}

\* lines 168-183: the self-spends are queued in the wallet's push pipeline
CancelSafelyQueue ==
    /\ canceller.pc = "awaiting"
    /\ tx_store' = tx_store \cup SelfSpends(coin_store, canceller.trade)
    /\ canceller' = [canceller EXCEPT !.pc = "queued"]
    /\ UNCHANGED <<trade_store, coin_store, result, handler, responder>>

\* line 185: await self.trade_store.set_status(trade_id, PENDING_CANCEL, False)
CancelSafelySetStatus ==
    /\ canceller.pc = "queued"
    /\ trade_store' = CancelSafelyFinish(trade_store, canceller.trade.trade_id)
    /\ canceller' = Idle
    /\ UNCHANGED <<tx_store, coin_store, result, handler, responder>>

\* the ledger confirms the spend of a coin that a queued self-spend spends
SelfSpendConfirmed ==
    \E n \in DOMAIN coin_store :
        /\ ~coin_store[n].spent
        /\ \E tx \in tx_store : tx.name = [of |-> "spend", id |-> n]
        /\ coin_store' = [coin_store EXCEPT ![n].spent = TRUE]
        /\ UNCHANGED <<trade_store, tx_store, result, handler, canceller, responder>>

\* line 90, for the notification of a spent coin not yet delivered
NotifyStart ==
    /\ handler.pc = "idle"
    /\ \E n \in DOMAIN coin_store, spent_height \in Heights :
         /\ coin_store[n].spent
         /\ n \notin Delivered(handler)
         /\ LET i == get_trade_by_coin(trade_store, coin_store[n].coin)
            IN IF i = 0
               THEN handler' = [pc |-> "idle", delivered |-> Delivered(handler) \cup {n}]
               ELSE handler' = [pc |-> "awaiting", trade |-> trade_store[i],
                                coin_state |-> CoinState(coin_store[n].coin, spent_height),
                                delivered |-> Delivered(handler) \cup {n}]
    /\ result' = Nothing
    /\ UNCHANGED <<trade_store, tx_store, coin_store, canceller, responder>>

\* lines 100-126, for that notification
NotifyWrite ==
    /\ handler.pc = "awaiting"
    /\ \E view \in LedgerViews(coin_store, OurSettlementPayments(coin_store, handler.trade)) :
         trade_store' = HandlerFinish(trade_store, coin_store, handler.trade, view)
    /\ handler' = [pc |-> "idle", delivered |-> Delivered(handler)]
    /\ UNCHANGED <<tx_store, coin_store, result, canceller, responder>>

SafeCancelNext ==
    \/ CreateMakerOffer
    \/ CancelSafelyStart
    \/ CancelSafelyQueue
    \/ CancelSafelySetStatus
    \/ SelfSpendConfirmed
    \/ NotifyStart
    \/ NotifyWrite

SafeCancelSpec == Init /\ [][SafeCancelNext]_vars

(***************************************************************************)
(* Helpers of the properties.                                              *)
(***************************************************************************)
Rows == 1..Len(trade_store)

\* the transitions the state machine lists
ListedTransitions ==
    {<<"PENDING_ACCEPT", "CANCELLED">>, <<"PENDING_ACCEPT", "PENDING_CANCEL">>,
     <<"PENDING_ACCEPT", "CONFIRMED">>, <<"PENDING_CONFIRM", "CONFIRMED">>,
     <<"PENDING_CONFIRM", "FAILED">>, <<"PENDING_CANCEL", "CANCELLED">>,
     <<"PENDING_CANCEL", "CONFIRMED">>}

\* the ledger views of the settlement coins of ours in every stored offer
StoreViews ==
    LedgerViews(coin_store,
                UNION {OurSettlementPayments(coin_store, trade_store[i]) : i \in Rows})

\* the handler's inputs for a coin state about any coin it may be notified of
HandlerInputs ==
    {CoinState(c, h) : c \in NotifiedCoins(trade_store), h \in {NoHeight} \cup Heights}

(***************************************************************************)
(* C1.  Terminal statuses are sticky: a stored trade whose status is       *)
(* CONFIRMED, CANCELLED or FAILED keeps that status in every step of the   *)
(* cancellations and of the handler.                                       *)
(***************************************************************************)
C1_TerminalSticky ==
    [][\A i \in Rows :
          trade_store[i].status \in TerminalStatuses
              => trade_store'[i].status = trade_store[i].status]_vars

(***************************************************************************)
(* C2.  Every change of the status of a non-terminal trade is one of the   *)
(* seven listed transitions, and the unsafe cancellation never turns a     *)
(* PENDING_CANCEL trade CANCELLED.                                         *)
(***************************************************************************)
C2_ListedTransitionsOnly ==
    [][\A i \in Rows :
          (/\ trade_store[i].status \in PendingStatuses
           /\ trade_store'[i].status # trade_store[i].status)
              => /\ <<trade_store[i].status, trade_store'[i].status>> \in ListedTransitions
                 /\ ~(/\ trade_store[i].status = "PENDING_CANCEL"
                      /\ trade_store'[i].status = "CANCELLED"
                      /\ \E trade_id \in TradeIds(trade_store) :
                            trade_store' = cancel_pending_offer(trade_store, trade_id))]_vars

(***************************************************************************)
(* C3.  Each coin is in coins_of_interest of at most one trade whose       *)
(* status is PENDING_ACCEPT, PENDING_CONFIRM or PENDING_CANCEL.            *)
(***************************************************************************)
C3_OnePendingTradePerCoin ==
    \A i, j \in Rows :
        (/\ i # j
         /\ trade_store[i].status \in PendingStatuses
         /\ trade_store[j].status \in PendingStatuses)
            => trade_store[i].coins_of_interest \cap trade_store[j].coins_of_interest = {}

(***************************************************************************)
(* C4.  When the handler writes a status, the status stored for the trade  *)
(* is still the one the handler read when it started.                      *)
(***************************************************************************)
C4_HandlerSerialized ==
    [][(/\ handler.pc = "awaiting"
        /\ handler'.pc = "idle"
        /\ trade_store' # trade_store)
          => \A i \in Rows :
                trade_store[i].trade_id = handler.trade.trade_id
                    => trade_store[i].status = handler.trade.status]_vars

(***************************************************************************)
(* C5.  Once respond_to_offer is over, also by cancellation, the trade     *)
(* store holds the TradeRecord of a response only together with its push   *)
(* transaction and all of its transaction history rows.                    *)
(***************************************************************************)
C5_SaveAndTransactionsAtomic ==
    responder.pc = "idle"
        => \A i \in Rows :
              ~trade_store[i].is_my_offer
                  => /\ PushTx(trade_store[i].offer) \in tx_store
                     /\ \A k \in 1..Len(HistoryRows(trade_store[i].offer)) :
                            HistoryRows(trade_store[i].offer)[k] \in tx_store

(***************************************************************************)
(* C6.  Settle wins: for a maker trade in PENDING_CANCEL, a handler call   *)
(* for any of its watched coins that finds one of our settlement coins     *)
(* spent leaves the trade CONFIRMED.                                       *)
(***************************************************************************)
C6_SettleWins ==
    \A i \in Rows :
        (trade_store[i].is_my_offer /\ trade_store[i].status = "PENDING_CANCEL")
            => \A coin \in trade_store[i].coins_of_interest, h \in Heights :
                 \A view \in LedgerViews(coin_store, OurSettlementPayments(coin_store, trade_store[i])) :
                    (\E s \in view : s.spent_height \in Heights)
                        => coins_of_interest_farmed(trade_store, coin_store,
                                                    CoinState(coin, h), view)[i].status = "CONFIRMED"

(***************************************************************************)
(* C7.  Safe cancel: cancel_pending_offer_safely moves a PENDING_ACCEPT    *)
(* maker trade to PENDING_CANCEL, and a handler call for a spent primary   *)
(* coin of a PENDING_CANCEL maker trade, while the ledger has no coin      *)
(* state for our settlement coins, leaves the trade CANCELLED.             *)
(***************************************************************************)
C7_SafeCancelCompletes ==
    \A i \in Rows :
        /\ (trade_store[i].is_my_offer /\ trade_store[i].status = "PENDING_ACCEPT")
              => CancelSafelyFinish(trade_store, trade_store[i].trade_id)[i].status = "PENDING_CANCEL"
        /\ (trade_store[i].is_my_offer /\ trade_store[i].status = "PENDING_CANCEL")
              => \A coin \in get_primary_coins(trade_store[i].offer), h \in Heights :
                    (CoinName(coin) \in DOMAIN coin_store /\ coin_store[CoinName(coin)].spent)
                        => coins_of_interest_farmed(trade_store, coin_store,
                                                    CoinState(coin, h), {})[i].status = "CANCELLED"

(***************************************************************************)
(* C8.  The handler is idempotent: with the same CoinState and the same    *)
(* ledger view, running it twice leaves the trade store as running it      *)
(* once does, and running it for a trade in a terminal status leaves the   *)
(* trade store as it is.                                                   *)
(***************************************************************************)
C8_HandlerIdempotent ==
    \A cstate \in HandlerInputs, view \in StoreViews :
        LET once == coins_of_interest_farmed(trade_store, coin_store, cstate, view)
            twice == coins_of_interest_farmed(once, coin_store, cstate, view)
            i == get_trade_by_coin(trade_store, cstate.coin)
        IN /\ twice = once
           /\ (i # 0 /\ trade_store[i].status \in TerminalStatuses) => once = trade_store

(***************************************************************************)
(* C9.  A failed create_offer_for_ids or respond_to_offer leaves the trade *)
(* store and the transaction store as they were before the call.           *)
(***************************************************************************)
C9_FailureLeavesStores ==
    [][(/\ result'.op \in {"create_offer_for_ids", "respond_to_offer"}
        /\ ~result'.success)
          => (trade_store' = trade_store /\ tx_store' = tx_store)]_vars

\* a call has failed on the coin selection while the trade store holds a trade
C9_Witness ==
    /\ result.op \in {"create_offer_for_ids", "respond_to_offer"}
    /\ ~result.success
    /\ result.error = "select_coins failed"
    /\ Len(trade_store) > 0
    /\ tx_store # {}

(***************************************************************************)
(* C10.  When the building of the offer fails, create_offer_for_ids and    *)
(* respond_to_offer return (false, no record, error message) and raise no  *)
(* exception.                                                              *)
(***************************************************************************)
C10_FailureIsAValue ==
    (result.op \in {"create_offer_for_ids", "respond_to_offer"} /\ ~result.success)
        => result.kind = "returned"

(***************************************************************************)
(* Helpers of the properties of the builder.                               *)
(***************************************************************************)
\* the dictionaries the builder is called with: those of create_offer_for_ids and
\* those respond_to_offer derives from the peers' offers
BuilderInputs ==
    MakerDicts \cup {take_offer_dict(o) : o \in {x \in PeerOffers : MissingAssets(x) = {}}}

\* what _create_offer_for_ids may give for the dictionary in the current state
Builds(offer_dict) ==
    _create_offer_for_ids(trade_store, coin_store, offer_dict, Fresh(trade_store))

\* the amounts of the dictionary summed per asset key of the wallets, times sign
RekeyedAmounts(offer_dict, sign) ==
    LET items == {i \in 1..Len(offer_dict) : offer_dict[i][2] # 0}
        RECURSIVE Sum(_)
        Sum(I) == IF I = {} THEN 0
                  ELSE LET i == CHOOSE j \in I : TRUE IN offer_dict[i][2] + Sum(I \ {i})
    IN [a \in {wallets[offer_dict[i][1]].asset : i \in items} |->
           sign * Sum({i \in items : wallets[offer_dict[i][1]].asset = a})]

(***************************************************************************)
(* C11.  The arbitrage of every offer _create_offer_for_ids builds equals  *)
(* the input amount map re-keyed by the asset keys of the wallets.         *)
(***************************************************************************)
C11_ArbitrageIsInputMap ==
    \A offer_dict \in BuilderInputs :
        \A built \in Builds(offer_dict) :
            built.success => arbitrage(built.offer) = RekeyedAmounts(offer_dict, 1)

(***************************************************************************)
(* C11, amended.  The arbitrage of every offer _create_offer_for_ids       *)
(* builds equals the negated input amount map re-keyed by the asset keys   *)
(* of the wallets: offered minus requested is -a for an entry a.           *)
(***************************************************************************)
C11_ArbitrageIsNegatedInputMap ==
    \A offer_dict \in BuilderInputs :
        \A built \in Builds(offer_dict) :
            built.success => arbitrage(built.offer) = RekeyedAmounts(offer_dict, 0 - 1)

\* an offer has been created and stored, and another can be built
C11_Witness ==
    /\ result.op = "create_offer_for_ids"
    /\ result.success
    /\ Len(trade_store) > 0
    /\ \E offer_dict \in BuilderInputs : \E built \in Builds(offer_dict) :
          built.success /\ DOMAIN arbitrage(built.offer) = {"None", "K"}

(***************************************************************************)
(* C12.  get_locked_coins(wallet_id) is exactly the coin records of the    *)
(* given wallet whose coin is involved in a trade in PENDING_ACCEPT,       *)
(* PENDING_CONFIRM or PENDING_CANCEL; it holds every coin of ours that a   *)
(* pending trade spends, and no coin that only terminal trades involve.    *)
(***************************************************************************)
C12_LockedCoinsArePendingCoins ==
    LET pending == {i \in Rows : trade_store[i].status \in PendingStatuses}
        held(wallet_id) == {n \in DOMAIN coin_store :
                               wallet_id = 0 \/ coin_store[n].wallet_id = wallet_id}
    IN /\ \A wallet_id \in {0} \cup DOMAIN wallets :
             get_locked_coins(trade_store, coin_store, wallet_id)
                = {n \in held(wallet_id) :
                      \E i \in pending : coin_store[n].coin \in get_involved_coins(trade_store[i].offer)}
       /\ \A i \in pending :
             \A c \in get_primary_coins(trade_store[i].offer) :
                CoinName(c) \in DOMAIN coin_store
                    => /\ CoinName(c) \in get_locked_coins(trade_store, coin_store, 0)
                       /\ CoinName(c) \in get_locked_coins(trade_store, coin_store,
                                                           coin_store[CoinName(c)].wallet_id)
       /\ \A n \in get_locked_coins(trade_store, coin_store, 0) :
             ~(\A i \in Rows : coin_store[n].coin \in get_involved_coins(trade_store[i].offer)
                                  => trade_store[i].status \in TerminalStatuses)

\* one coin of ours is locked by a trade in PENDING_CANCEL while the other is
\* involved in a terminal trade only
C12_Witness ==
    /\ \E i \in Rows : /\ trade_store[i].status = "PENDING_CANCEL"
                       /\ OurCoinA \in get_primary_coins(trade_store[i].offer)
    /\ \E j \in Rows : /\ trade_store[j].status \in TerminalStatuses
                       /\ OurCoinB \in get_primary_coins(trade_store[j].offer)
    /\ get_locked_coins(trade_store, coin_store, main_wallet) = {CoinName(OurCoinA)}

(***************************************************************************)
(* C13.  get_all_trades, get_trade_by_id, get_offers_with_status and       *)
(* get_trade_by_coin never return a trade whose status is CANCELLED.       *)
(***************************************************************************)
C13_QueriesIgnoreCancelled ==
    /\ \A i \in 1..Len(get_all_trades(trade_store)) :
          get_all_trades(trade_store)[i].status # "CANCELLED"
    /\ \A trade_id \in TradeIds(trade_store) :
          \A t \in get_trade_by_id(trade_store, trade_id) : t.status # "CANCELLED"
    /\ \A status \in PendingStatuses \cup TerminalStatuses :
          \A i \in 1..Len(get_offers_with_status(trade_store, status)) :
             get_offers_with_status(trade_store, status)[i].status # "CANCELLED"
    /\ \A coin \in NotifiedCoins(trade_store) :
          get_trade_by_coin(trade_store, coin) # 0
              => trade_store[get_trade_by_coin(trade_store, coin)].status # "CANCELLED"

(***************************************************************************)
(* C14.  A handler call with a CoinState whose spent_height is null        *)
(* changes the status and the confirmation height of no trade, whatever    *)
(* the statuses and the ledger view.                                       *)
(***************************************************************************)
C14_UnspentCoinChangesNothing ==
    \A coin \in NotifiedCoins(trade_store), view \in StoreViews :
        LET after == coins_of_interest_farmed(trade_store, coin_store,
                                              CoinState(coin, NoHeight), view)
        IN \A i \in Rows :
              /\ after[i].status = trade_store[i].status
              /\ after[i].confirmed_at_index = trade_store[i].confirmed_at_index

(***************************************************************************)
(* C15.  A handler call turns a trade CONFIRMED only when the ledger view  *)
(* shows one of our settlement coins of that trade spent, and the height   *)
(* it records is the spent_height of such a spent coin: a settlement coin  *)
(* that is on the ledger unspent confirms nothing.                         *)
(***************************************************************************)
C15_ConfirmedOnlyBySpentSettlement ==
    \A cstate \in HandlerInputs, view \in StoreViews :
        LET after == coins_of_interest_farmed(trade_store, coin_store, cstate, view)
        IN \A i \in Rows :
              (trade_store[i].status # "CONFIRMED" /\ after[i].status = "CONFIRMED")
                  => \E s \in view :
                        /\ s.coin \in OurSettlementPayments(coin_store, trade_store[i])
                        /\ s.spent_height \in Heights
                        /\ after[i].confirmed_at_index = s.spent_height

(***************************************************************************)
(* C16.  In respond_to_offer the bundle is handed to the push pipeline     *)
(* only once the TradeRecord and every INCOMING_TRADE and OUTGOING_TRADE   *)
(* history row of the trade are persisted.                                 *)
(***************************************************************************)
C16_HistoryBeforePush ==
    \A tx \in tx_store :
        tx.name.of = "bundle"
            => \E i \in Rows :
                  /\ trade_store[i].trade_id = tx.trade_id
                  /\ \A k \in 1..Len(HistoryRows(trade_store[i].offer)) :
                        HistoryRows(trade_store[i].offer)[k] \in tx_store

(***************************************************************************)
(* Helpers of the properties of respond_to_offer.                          *)
(***************************************************************************)
\* the peers' offers whose assets we hold wallets for
HeldPeerOffers == {o \in PeerOffers : MissingAssets(o) = {}}

\* offered minus requested of the asset in the offer
Surplus(offer, asset) ==
    SumAmounts({c \in offer.offered : c.puzzle_hash.asset = asset})
    - SumAmounts({q \in offer.requested_payments : q.asset = asset})

\* the wallet of ours for the asset key: the base wallet, or the one tracking the colour
LocalWallet(asset) ==
    IF asset = "None" THEN main_wallet
    ELSE CHOOSE w \in DOMAIN wallets :
            wallets[w].type = "COLOURED_COIN" /\ wallets[w].asset = asset

\* the entries of the map respond_to_offer hands to the builder
EntriesOf(offer_dict) == {offer_dict[i] : i \in 1..Len(offer_dict)}

\* every aggregate of the peer offer with an offer built for it is balanced
AggregatesBalanced ==
    \A offer \in HeldPeerOffers :
        \A built \in Builds(take_offer_dict(offer)) :
            built.success
                => \A a \in OfferAssets(aggregate(offer, built.offer)) :
                      Surplus(aggregate(offer, built.offer), a) = 0

(***************************************************************************)
(* C17.  For each asset key K with non-zero arbitrage v in the peer offer, *)
(* respond_to_offer hands the builder a map that gives the local wallet of *)
(* K the amount -v, and the aggregate of the peer offer with the offer     *)
(* built from that map has arbitrage zero on every asset.                  *)
(***************************************************************************)
C17_ComplementIsNegatedArbitrage ==
    /\ \A offer \in HeldPeerOffers :
          \A a \in OfferAssets(offer) :
             Surplus(offer, a) # 0
                 => <<LocalWallet(a), 0 - Surplus(offer, a)>> \in EntriesOf(take_offer_dict(offer))
    /\ AggregatesBalanced

(***************************************************************************)
(* C17, amended.  For each asset key K with non-zero arbitrage v in the    *)
(* peer offer, respond_to_offer hands the builder a map that gives the     *)
(* local wallet of K the amount v itself (what the peer offers in excess   *)
(* is what we ask to receive), and the aggregate of the peer offer with    *)
(* the offer built from that map has arbitrage zero on every asset.        *)
(***************************************************************************)
C17_ComplementIsArbitrage ==
    /\ \A offer \in HeldPeerOffers :
          \A a \in OfferAssets(offer) :
             Surplus(offer, a) # 0
                 => <<LocalWallet(a), Surplus(offer, a)>> \in EntriesOf(take_offer_dict(offer))
    /\ AggregatesBalanced

\* a peer offer has been answered and stored, and another can still be answered
C17_Witness ==
    /\ result.op = "respond_to_offer"
    /\ result.success
    /\ \E i \in Rows : ~trade_store[i].is_my_offer /\ is_valid(trade_store[i].offer)
    /\ \E offer \in HeldPeerOffers : \E built \in Builds(take_offer_dict(offer)) : built.success

(***************************************************************************)
(* C18.  The requested payment that _create_offer_for_ids builds for a     *)
(* positive entry carries the fresh p2_ph in its memos when the wallet is  *)
(* a coloured-asset wallet, and no memos when it is the base-asset wallet. *)
(***************************************************************************)
C18_MemosOnlyForColouredAssets ==
    \A i \in Rows :
        \A p \in {q \in trade_store[i].offer.requested_payments : q.puzzle_hash.owner = "us"} :
            IF p.asset = "None"
            THEN p.memos = <<>>
            ELSE \E k \in 1..Len(p.memos) : p.memos[k] = p.puzzle_hash

C20_SafeCancelCompletes ==
    \A i \in Rows :
        LET ours == {c \in get_primary_coins(trade_store[i].offer) :
                        CoinName(c) \in DOMAIN coin_store}
        IN (/\ ours # {}
            /\ \A c \in ours :
                  /\ [of |-> "spend", id |-> CoinName(c)] \in {tx.name : tx \in tx_store}
                  /\ coin_store[CoinName(c)].spent
                  /\ CoinName(c) \in Delivered(handler)
            /\ handler.pc = "idle"
            /\ canceller.pc = "idle")
               => trade_store[i].status \in {"CANCELLED", "CONFIRMED"}

(***************************************************************************)
(* C21.  For a spent coin that is in coins_of_interest of a trade in       *)
(* PENDING_ACCEPT, PENDING_CONFIRM or PENDING_CANCEL, the trade that       *)
(* get_trade_by_coin gives the handler is a pending trade holding the      *)
(* coin, and a handler call for the coin modifies no trade that does not   *)
(* hold the coin.                                                          *)
(***************************************************************************)
C21_HandlerEvaluatesPendingTrade ==
    \A coin \in NotifiedCoins(trade_store) :
        (/\ CoinName(coin) \in DOMAIN coin_store => coin_store[CoinName(coin)].spent
         /\ \E j \in Rows : /\ trade_store[j].status \in PendingStatuses
                            /\ coin \in trade_store[j].coins_of_interest)
            => /\ get_trade_by_coin(trade_store, coin) # 0
               /\ trade_store[get_trade_by_coin(trade_store, coin)].status \in PendingStatuses
               /\ coin \in trade_store[get_trade_by_coin(trade_store, coin)].coins_of_interest
               /\ \A h \in Heights, view \in StoreViews :
                     LET after == coins_of_interest_farmed(trade_store, coin_store,
                                                           CoinState(coin, h), view)
                     IN \A i \in Rows :
                           coin \notin trade_store[i].coins_of_interest
                               => after[i] = trade_store[i]
====
